---------------------------- MODULE Spec2Model ----------------------------
(***************************************************************************)
(* A model of the finance agent's orchestration entry point               *)
(* (src/finance_agent.py, run_finance_agent) : credential lookup, client  *)
(* configuration, keyword routing, the awaited assistant call and the     *)
(* mapping of failures to user-facing strings.                            *)
(*                                                                         *)
(* Python strings are TLA+ strings; TLC evaluates Len, SubSeq and \o on   *)
(* them, so lower(), startswith() and the `in` substring test are         *)
(* computed character by character, as Python computes them.  A value     *)
(* that may be None is a tuple: <<>> is None and <<v>> is the value v.     *)
(***************************************************************************)
EXTENDS Integers, Sequences, FiniteSets, TLC

(***************************************************************************)
(* Bounds of the model.                                                    *)
(***************************************************************************)
\* words per probed query
MaxWords == 3
\* fragments per probed failure message
MaxFragments == 2
\* run_finance_agent calls in one behaviour of the handler specification
MaxCalls == 2
\* the largest amount converted, in cents
MaxAmountCents == 40
MaxHoldings == 2

(***************************************************************************)
(* Python string operations.                                               *)
(***************************************************************************)
UpperCase == "ABCDEFGHIJKLMNOPQRSTUVWXYZ"
LowerCase == "abcdefghijklmnopqrstuvwxyz"

\* str.lower() on one character (ASCII letters; everything else is kept)
LowerChar(c) ==
    IF \E i \in 1..Len(UpperCase) : SubSeq(UpperCase, i, i) = c
    THEN LET i == CHOOSE j \in 1..Len(UpperCase) : SubSeq(UpperCase, j, j) = c
         IN  SubSeq(LowerCase, i, i)
    ELSE c

RECURSIVE Lower(_)
\* str.lower()
Lower(s) ==
    IF Len(s) = 0 THEN s
    ELSE LowerChar(SubSeq(s, 1, 1)) \o Lower(SubSeq(s, 2, Len(s)))

\* str.upper() on one character (ASCII letters; everything else is kept)
UpperChar(c) ==
    IF \E i \in 1..Len(LowerCase) : SubSeq(LowerCase, i, i) = c
    THEN LET i == CHOOSE j \in 1..Len(LowerCase) : SubSeq(LowerCase, j, j) = c
         IN  SubSeq(UpperCase, i, i)
    ELSE c

RECURSIVE Upper(_)
\* str.upper()
Upper(s) ==
    IF Len(s) = 0 THEN s
    ELSE UpperChar(SubSeq(s, 1, 1)) \o Upper(SubSeq(s, 2, Len(s)))

\* `k in s` for a non-empty k: k occurs somewhere in s as a contiguous substring
Contains(s, k) ==
    \E i \in 0..(Len(s) - Len(k)) : SubSeq(s, i + 1, i + Len(k)) = k

\* s.startswith(p)
StartsWith(s, p) ==
    Len(s) >= Len(p) /\ SubSeq(s, 1, Len(p)) = p

\* any(keyword in s for keyword in keywords)
AnyIn(keywords, s) == \E k \in keywords : Contains(s, k)

\* Python's None and a present value
None == << >>
Some(v) == << v >>
\* truthiness of an optional string: None and "" are falsy
Truthy(o) == o # None /\ Len(o[1]) > 0


(***************************************************************************)
(* Keyword routing (run_finance_agent, lines 434-470).                     *)
(***************************************************************************)
stock_keywords ==
    {"stock", "price", "aapl", "googl", "tsla", "nvda", "msft", "amzn",
     "meta", "ticker", "shares", "equity", "analysis"}

portfolio_keywords ==
    {"portfolio", "investment", "returns", "risk", "diversification",
     "holdings", "asset", "allocation"}

news_keywords ==
    {"news", "market", "trends", "sector", "update", "latest", "breaking"}

currency_keywords ==
    {"currency", "forex", "convert", "exchange rate", "eur", "gbp", "jpy",
     "usd", "international", "pkr", "rupees", "pakistan", "inr", "cny",
     "cad", "aud", "chf", "aed", "sar", "subtract", "add", "multiply"}

\* a slip in the list: the math step without the three arithmetic words
math_keywordsNoArithmetic == {"divide", "percent", "%", "calculate"}

math_keywords ==
    {"subtract", "add", "multiply", "divide", "percent", "%", "calculate"}

\* the agents' names (Agent(name=...))
stock_agent     == "Stock Analyst"
portfolio_agent == "Portfolio Manager"
market_agent    == "Market Intelligence Analyst"
currency_agent  == "Currency Specialist"
triage_agent    == "Finance Assistant"

Agents == {stock_agent, portfolio_agent, market_agent, currency_agent, triage_agent}

Specialists == {stock_agent, portfolio_agent, market_agent, currency_agent}

\* the @function_tool functions of lines 90-269
ToolNames ==
    {"get_stock_price", "get_market_news", "analyze_portfolio", "calculate_returns",
     "currency_converter", "risk_assessment"}

\* a slip in the agent definitions: the return and risk calculators bound to
\* the currency specialist, which the math keywords route to
AgentToolsMathOnCurrency ==
    [a \in Agents |->
        IF a = stock_agent THEN {"get_stock_price"}
        ELSE IF a = portfolio_agent THEN {"analyze_portfolio"}
        ELSE IF a = market_agent THEN {"get_market_news"}
        ELSE IF a = currency_agent
        THEN {"currency_converter", "calculate_returns", "risk_assessment"}
        ELSE {}]

\* Agent(tools=[...]) of each agent; the triage agent is given none
AgentTools ==
    [a \in Agents |->
        IF a = stock_agent THEN {"get_stock_price"}
        ELSE IF a = portfolio_agent
        THEN {"analyze_portfolio", "calculate_returns", "risk_assessment"}
        ELSE IF a = market_agent THEN {"get_market_news"}
        ELSE IF a = currency_agent THEN {"currency_converter"}
        ELSE {}]

\* Agent(handoffs=[...]): only the triage agent hands off
AgentHandoffs ==
    [a \in Agents |-> IF a = triage_agent THEN Specialists ELSE {}]

\* the functions a run started with agent a can invoke, given the agents'
\* tool lists tl: a's own tools, and after a handoff the tools of the agent
\* handed to
Invocable(tl, a) == tl[a] \cup UNION {tl[h] : h \in AgentHandoffs[a]}

\* a slip in the if/elif chain: the stock test placed before the math test
RouteTargetStockFirst(query) ==
    LET query_lower == Lower(query) IN
    IF AnyIn(stock_keywords, query_lower) THEN stock_agent
    ELSE IF AnyIn(math_keywords, query_lower) THEN currency_agent
    ELSE IF AnyIn(portfolio_keywords, query_lower) THEN portfolio_agent
    ELSE IF AnyIn(news_keywords, query_lower) THEN market_agent
    ELSE IF AnyIn(currency_keywords, query_lower) THEN currency_agent
    ELSE triage_agent

\* a slip in the if/elif chain: the news test placed before the stock test
RouteTargetNewsFirst(query) ==
    LET query_lower == Lower(query) IN
    IF AnyIn(math_keywords, query_lower) THEN currency_agent
    ELSE IF AnyIn(news_keywords, query_lower) THEN market_agent
    ELSE IF AnyIn(stock_keywords, query_lower) THEN stock_agent
    ELSE IF AnyIn(portfolio_keywords, query_lower) THEN portfolio_agent
    ELSE IF AnyIn(currency_keywords, query_lower) THEN currency_agent
    ELSE triage_agent

\* a slip in the keyword lists: an empty keyword, which every query contains
RouteTargetEmptyKeyword(query) ==
    LET query_lower == Lower(query) IN
    IF AnyIn(math_keywords, query_lower) THEN currency_agent
    ELSE IF AnyIn(stock_keywords, query_lower) THEN stock_agent
    ELSE IF AnyIn(portfolio_keywords, query_lower) THEN portfolio_agent
    ELSE IF AnyIn(news_keywords, query_lower) THEN market_agent
    ELSE IF AnyIn(currency_keywords \cup {""}, query_lower) THEN currency_agent
    ELSE triage_agent

\* target_agent as the if/elif chain of lines 457-470 chooses it
RouteTarget(query) ==
    LET query_lower == Lower(query) IN
    IF AnyIn(math_keywords, query_lower) THEN currency_agent
    ELSE IF AnyIn(stock_keywords, query_lower) THEN stock_agent
    ELSE IF AnyIn(portfolio_keywords, query_lower) THEN portfolio_agent
    ELSE IF AnyIn(news_keywords, query_lower) THEN market_agent
    ELSE IF AnyIn(currency_keywords, query_lower) THEN currency_agent
    ELSE triage_agent

(***************************************************************************)
(* The strings run_finance_agent returns for failures.  The warning sign   *)
(* U+26A0 U+FE0F of the source is written in ASCII.                        *)
(***************************************************************************)
WarningSign == "<U+26A0><U+FE0F>"

NoApiKeyText ==
    WarningSign \o "  Error: No API key configured. Please add OPENAI_API_KEY to .env file."
ApiErrorText ==
    WarningSign \o " API Error: Unable to connect to the service. This might be due to rate limiting on the free tier. Please wait a moment and try again."
RateLimitText ==
    WarningSign \o " Rate Limit: Too many requests. Please wait a moment and try again."
TokenLimitText ==
    WarningSign \o " Token Limit: Request too large. Please try a shorter query."
ErrorPrefix == WarningSign \o " Error: "

\* a slip in the handler: the rate-limit test of the elif forgets .lower()
ExceptHandlerNoLower(error_msg) ==
    IF Contains(error_msg, "401") \/ Contains(error_msg, "User not found")
    THEN ApiErrorText
    ELSE IF Contains(error_msg, "429") \/ Contains(error_msg, "rate limit")
    THEN RateLimitText
    ELSE IF Contains(error_msg, "402") THEN TokenLimitText
    ELSE ErrorPrefix \o error_msg

\* a slip in the handler: the generic branch returns the lower-cased message
ExceptHandlerLowered(error_msg) ==
    IF Contains(error_msg, "401") \/ Contains(error_msg, "User not found")
    THEN ApiErrorText
    ELSE IF Contains(error_msg, "429") \/ Contains(Lower(error_msg), "rate limit")
    THEN RateLimitText
    ELSE IF Contains(error_msg, "402") THEN TokenLimitText
    ELSE ErrorPrefix \o Lower(error_msg)

\* a slip in the handler: the 402 branch returns the rate-limit text
ExceptHandlerPastedRate(error_msg) ==
    IF Contains(error_msg, "401") \/ Contains(error_msg, "User not found")
    THEN ApiErrorText
    ELSE IF Contains(error_msg, "429") \/ Contains(Lower(error_msg), "rate limit")
    THEN RateLimitText
    ELSE IF Contains(error_msg, "402") THEN RateLimitText
    ELSE ErrorPrefix \o error_msg

\* the except branch of lines 480-490, given error_msg = str(e)
ExceptHandler(error_msg) ==
    IF Contains(error_msg, "401") \/ Contains(error_msg, "User not found")
    THEN ApiErrorText
    ELSE IF Contains(error_msg, "429") \/ Contains(Lower(error_msg), "rate limit")
    THEN RateLimitText
    ELSE IF Contains(error_msg, "402") THEN TokenLimitText
    ELSE ErrorPrefix \o error_msg

(***************************************************************************)
(* The outcome of a call: a value returned to the caller, or an exception  *)
(* that leaves the call.                                                   *)
(***************************************************************************)
Returned(v) == [kind |-> "returned", value |-> v]
Raised(m)   == [kind |-> "raised", value |-> m]

\* a slip in the handler: the generic branch re-raises instead of returning
RunOutcomeReraise(error_msg) ==
    IF ExceptHandler(error_msg) = ErrorPrefix \o error_msg
    THEN Raised(error_msg)
    ELSE Returned(ExceptHandler(error_msg))

\* try ... except Exception as e: every branch of the handler returns
RunOutcomeOnFailure(error_msg) == Returned(ExceptHandler(error_msg))

(***************************************************************************)
(* The process environment (os.environ) and the credential lookup.         *)
(***************************************************************************)
\* os.getenv(name, default) with a string default
GetEnv(e, name, default) == IF name \in DOMAIN e THEN e[name] ELSE default
\* os.getenv(name): None when the variable is unset
GetEnvOpt(e, name) == IF name \in DOMAIN e THEN Some(e[name]) ELSE None

\* the names bound where get_api_key evaluates its elif conditions: its two
\* locals and the module's globals; no openai_key among them
GetApiKeyNames ==
    {"openrouter_key", "google_key",
     "OPENROUTER_API_KEY", "OPENROUTER_BASE_URL", "DEFAULT_MODEL", "os"}

NameErrorText(name) == "name '" \o name \o "' is not defined"

KeyResult(key, provider) ==
    [raised |-> FALSE, exc |-> "", api_key |-> key, provider |-> provider]
KeyFailure(msg) ==
    [raised |-> TRUE, exc |-> msg, api_key |-> None, provider |-> "none"]

\* get_api_key(): the (api_key, provider) pair, or the exception it raises
get_api_key(e) ==
    LET openrouter_key == GetEnv(e, "OPENAI_API_KEY", "")
        google_key     == GetEnvOpt(e, "GOOGLE_API_KEY")
    IN  IF Len(openrouter_key) > 0 /\ StartsWith(openrouter_key, "sk-or-v1-")
        THEN KeyResult(Some(openrouter_key), "openrouter")
        ELSE IF "openai_key" \notin GetApiKeyNames
        THEN KeyFailure(NameErrorText("openai_key"))
        ELSE IF Truthy(google_key)
        THEN KeyResult(google_key, "google")
        ELSE KeyResult(None, "none")

DefaultBaseUrl == "https://openrouter.ai/api/v1"

\* a slip in the two assignments: the base URL stored under the key's name
configure_openai_clientSwapped(e) ==
    LET openrouter_key == GetEnv(e, "OPENAI_API_KEY", "")
        base_url       == GetEnv(e, "OPENAI_BASE_URL", DefaultBaseUrl)
    IN  IF Len(openrouter_key) > 0 /\ StartsWith(openrouter_key, "sk-or-v1-")
        THEN [n \in DOMAIN e \cup {"OPENAI_API_KEY", "OPENAI_BASE_URL"} |->
                 IF n = "OPENAI_API_KEY" THEN base_url
                 ELSE IF n = "OPENAI_BASE_URL" THEN base_url
                 ELSE e[n]]
        ELSE e

\* configure_openai_client(): the environment it leaves
configure_openai_client(e) ==
    LET openrouter_key == GetEnv(e, "OPENAI_API_KEY", "")
        base_url       == GetEnv(e, "OPENAI_BASE_URL", DefaultBaseUrl)
    IN  IF Len(openrouter_key) > 0 /\ StartsWith(openrouter_key, "sk-or-v1-")
        THEN [n \in DOMAIN e \cup {"OPENAI_API_KEY", "OPENAI_BASE_URL"} |->
                 IF n = "OPENAI_API_KEY" THEN openrouter_key
                 ELSE IF n = "OPENAI_BASE_URL" THEN base_url
                 ELSE e[n]]
        ELSE e

\* lines 423-432: the environment after the provider-specific configuration
ConfigureProvider(e, k) ==
    IF k.provider \in {"openrouter", "google"} THEN configure_openai_client(e)
    ELSE IF k.provider = "openai"
    THEN [n \in DOMAIN e \cup {"OPENAI_API_KEY"} |->
             IF n = "OPENAI_API_KEY" THEN k.api_key[1] ELSE e[n]]
    ELSE e

\* load_dotenv(): variables of the .env file are added, set ones are kept
load_dotenv(e, file) ==
    [n \in DOMAIN e \cup DOMAIN file |-> IF n \in DOMAIN e THEN e[n] ELSE file[n]]

(***************************************************************************)
(* The financial functions (lines 91-269).  Money is counted in cents,     *)
(* rates and betas in hundredths, volatility in tenths of a percent.       *)
(***************************************************************************)
RECURSIVE Pow(_, _)
Pow(b, n) == IF n = 0 THEN 1 ELSE b * Pow(b, n - 1)

\* a function that raises the exception exc, or returns the analysis
Fault(exc) == [raised |-> exc, metric |-> "", recommendation |-> ""]
Analysis(metric, recommendation) ==
    [raised |-> "none", metric |-> metric, recommendation |-> recommendation]

\* cagr > (num / den - 1) * 100, where cagr is
\* ((final_value / initial_investment) ** (1 / period_years) - 1) * 100 and the
\* power is a real number; when the CAGR is exactly the threshold in real
\* arithmetic, the floating-point value falls on either side (up)
CagrExceeds(initial_investment, final_value, period_years, num, den, up) ==
    LET sameSign == (final_value > 0 /\ initial_investment > 0)
                       \/ (final_value < 0 /\ initial_investment < 0)
        f == IF final_value >= 0 THEN final_value ELSE 0 - final_value
        i == IF initial_investment >= 0 THEN initial_investment ELSE 0 - initial_investment
    IN  IF ~sameSign THEN FALSE
        ELSE IF period_years > 0
        THEN LET lhs == f * Pow(den, period_years)
                 rhs == i * Pow(num, period_years)
             IN  lhs > rhs \/ (lhs = rhs /\ up)
        ELSE LET lhs == f * Pow(num, 0 - period_years)
                 rhs == i * Pow(den, 0 - period_years)
             IN  lhs < rhs \/ (lhs = rhs /\ up)

\* a slip in the tier test: the total return is compared, not the CAGR
calculate_returnsTotalReturn(initial_investment, final_value, period_years, up) ==
    IF initial_investment = 0 THEN Fault("ZeroDivisionError")
    ELSE IF period_years = 0 THEN Fault("ZeroDivisionError")
    ELSE IF final_value = 0 /\ period_years < 0 THEN Fault("ZeroDivisionError")
    ELSE IF ((final_value < 0 /\ initial_investment > 0)
                \/ (final_value > 0 /\ initial_investment < 0))
            /\ period_years \notin {1, -1}
    THEN Fault("TypeError")
    ELSE IF CagrExceeds(initial_investment, final_value, 1, 11, 10, up)
    THEN Analysis("CAGR", "Excellent performance! Consider maintaining your strategy.")
    ELSE IF CagrExceeds(initial_investment, final_value, 1, 21, 20, up)
    THEN Analysis("CAGR", "Good performance. Continue monitoring and diversifying.")
    ELSE Analysis("CAGR", "Review investment strategy for better returns.")

\* calculate_returns (lines 168-195) on whole numbers
calculate_returns(initial_investment, final_value, period_years, up) ==
    IF initial_investment = 0 THEN Fault("ZeroDivisionError")
    ELSE IF period_years = 0 THEN Fault("ZeroDivisionError")
    ELSE IF final_value = 0 /\ period_years < 0 THEN Fault("ZeroDivisionError")
    ELSE IF ((final_value < 0 /\ initial_investment > 0)
                \/ (final_value > 0 /\ initial_investment < 0))
            /\ period_years \notin {1, -1}
    THEN Fault("TypeError")
    ELSE IF CagrExceeds(initial_investment, final_value, period_years, 11, 10, up)
    THEN Analysis("CAGR", "Excellent performance! Consider maintaining your strategy.")
    ELSE IF CagrExceeds(initial_investment, final_value, period_years, 21, 20, up)
    THEN Analysis("CAGR", "Good performance. Continue monitoring and diversifying.")
    ELSE Analysis("CAGR", "Review investment strategy for better returns.")

\* a slip in the rounding: the digits after the second decimal are cut off
RoundHalfTruncated(n, d, up) ==
    IF n >= 0 THEN n \div d ELSE 0 - ((0 - n) \div d)

\* round(n / d) to a whole number, for d > 0: the nearest one; when n / d lies
\* exactly half way, the floating-point value rounds to either neighbour (up)
RoundHalf(n, d, up) ==
    LET a == IF n >= 0 THEN n ELSE 0 - n
        q == a \div d
        r == a % d
        m == IF 2 * r > d \/ (2 * r = d /\ up) THEN q + 1 ELSE q
    IN  IF n >= 0 THEN m ELSE 0 - m

\* exchange_rates, in hundredths
exchange_rates ==
    [c \in {"USD", "EUR", "GBP", "JPY", "CAD", "AUD", "CHF", "PKR", "INR", "CNY",
            "AED", "SAR"} |->
        IF c = "USD" THEN 100 ELSE IF c = "EUR" THEN 92 ELSE IF c = "GBP" THEN 79
        ELSE IF c = "JPY" THEN 14950 ELSE IF c = "CAD" THEN 135
        ELSE IF c = "AUD" THEN 152 ELSE IF c = "CHF" THEN 88
        ELSE IF c = "PKR" THEN 27850 ELSE IF c = "INR" THEN 8312
        ELSE IF c = "CNY" THEN 724 ELSE IF c = "AED" THEN 367 ELSE 375]

\* PortfolioHolding (the symbol decides nothing in the summary)
PortfolioHolding(symbol, shares, average_cost) ==
    [symbol |-> symbol, shares |-> shares, average_cost |-> average_cost]

\* the loop of analyze_portfolio: the sum of shares * average_cost and of
\* shares * current_price over the holdings; prices[k] is the price that
\* get_stock_price drew for the k-th holding
RECURSIVE TotalCost(_)
TotalCost(holdings) ==
    IF holdings = << >> THEN 0
    ELSE Head(holdings).shares * Head(holdings).average_cost + TotalCost(Tail(holdings))

RECURSIVE TotalValue(_, _)
TotalValue(holdings, prices) ==
    IF holdings = << >> THEN 0
    ELSE Head(holdings).shares * Head(prices) + TotalValue(Tail(holdings), Tail(prices))

PortfolioFault(exc) ==
    [raised |-> exc, total_value |-> 0, total_gain_loss |-> 0,
     gain_loss_percent |-> 0, num_positions |-> 0]

\* a slip in the guard: the division is made whenever the cost is not negative
analyze_portfolioNonNegativeGuard(holdings, prices, up) ==
    LET total_cost == TotalCost(holdings)
        total_value == TotalValue(holdings, prices)
        total_gain_loss == total_value - total_cost
    IN  IF total_cost = 0 THEN PortfolioFault("ZeroDivisionError")
        ELSE [raised |-> "none", total_value |-> total_value,
              total_gain_loss |-> total_gain_loss,
              gain_loss_percent |->
                  IF total_cost > 0
                  THEN RoundHalf(total_gain_loss * 10000, total_cost, up) ELSE 0,
              num_positions |-> Len(holdings)]

\* analyze_portfolio: money in whole dollars, gain_loss_percent in hundredths
\* of a percent (round(.., 2)); a division by a zero cost would raise
\* ZeroDivisionError
analyze_portfolio(holdings, prices, up) ==
    LET total_cost == TotalCost(holdings)
        total_value == TotalValue(holdings, prices)
        total_gain_loss == total_value - total_cost
    IN  [raised |-> "none", total_value |-> total_value,
         total_gain_loss |-> total_gain_loss,
         gain_loss_percent |->
             IF total_cost > 0
             THEN RoundHalf(total_gain_loss * 10000, total_cost, up) ELSE 0,
         num_positions |-> Len(holdings)]

\* a slip in the lookup: the code is looked up as it was given
RateOfCaseSensitive(code) ==
    IF code \in DOMAIN exchange_rates THEN exchange_rates[code] ELSE 100

\* exchange_rates.get(code.upper(), 1.0), in hundredths
RateOf(code) ==
    IF Upper(code) \in DOMAIN exchange_rates THEN exchange_rates[Upper(code)] ELSE 100

\* the codes passed to currency_converter, and their rates tabulated
OtherCodes == {"usd", "Eur", "pkr", "XYZ", "btc", ""}
CurrencyCodes == DOMAIN exchange_rates \cup OtherCodes
RateTable == [code \in CurrencyCodes |-> RateOf(code)]

\* currency_converter (lines 198-232): the value it returns, in cents, for an
\* amount in cents
currency_converter(amount, from_currency, to_currency, up) ==
    RoundHalf(amount * RateTable[to_currency], RateTable[from_currency], up)

\* a slip in the comparisons: the thresholds themselves count as exceeded
risk_levelNonStrict(portfolio_beta, volatility) ==
    IF portfolio_beta >= 120 \/ volatility >= 250 THEN "High"
    ELSE IF portfolio_beta >= 80 \/ volatility >= 150 THEN "Medium"
    ELSE "Low"

\* risk_level of risk_assessment (lines 242-246); the beta in hundredths, the
\* volatility in tenths of a percent
risk_level(portfolio_beta, volatility) ==
    IF portfolio_beta > 120 \/ volatility > 250 THEN "High"
    ELSE IF portfolio_beta > 80 \/ volatility > 150 THEN "Medium"
    ELSE "Low"

\* a slip in the diversification test: a score of 6 counts as low
recommendationsUpToSix(level, diversification_score) ==
    (IF level = "High"
     THEN <<"Consider reducing high-beta positions", "Add defensive stocks and bonds",
            "Increase cash position">>
     ELSE IF level = "Medium"
     THEN <<"Maintain current allocation", "Consider gradual rebalancing">>
     ELSE <<"Your portfolio is well-positioned", "Consider growth opportunities">>)
    \o (IF diversification_score <= 6
        THEN <<"Improve diversification across sectors">> ELSE << >>)

\* the recommendations list of risk_assessment (lines 248-262)
recommendations(level, diversification_score) ==
    (IF level = "High"
     THEN <<"Consider reducing high-beta positions", "Add defensive stocks and bonds",
            "Increase cash position">>
     ELSE IF level = "Medium"
     THEN <<"Maintain current allocation", "Consider gradual rebalancing">>
     ELSE <<"Your portfolio is well-positioned", "Consider growth opportunities">>)
    \o (IF diversification_score < 6
        THEN <<"Improve diversification across sectors">> ELSE << >>)

RECURSIVE Join(_, _)
\* sep.join(items)
Join(sep, items) ==
    IF Len(items) = 0 THEN ""
    ELSE IF Len(items) = 1 THEN items[1]
    ELSE items[1] \o sep \o Join(sep, Tail(items))

\* risk_assessment (lines 235-269)
risk_assessment(portfolio_beta, volatility, diversification_score) ==
    LET level == risk_level(portfolio_beta, volatility) IN
    [raised |-> "none", metric |-> "Risk Level", value |-> portfolio_beta,
     risk_level |-> level,
     items |-> recommendations(level, diversification_score),
     recommendation |-> Join("; ", recommendations(level, diversification_score))]

(***************************************************************************)
(* Inputs of the handler specification.                                    *)
(***************************************************************************)
\* the n-th SQLiteSession object the web UI constructs (its id is "web_" and
\* the time of construction)
WebSessionId(n) == IF n <= 1 THEN "web_1" ELSE "web_2"

\* SQLiteSession("finance_conversation") of main() and the web UI's sessions
SessionIds == {"finance_conversation", WebSessionId(1), WebSessionId(2)}
\* the session argument of the direct callers: main() passes its session, the
\* tests and examples pass none
SessionArgs == {None, Some("finance_conversation")}

HandlerQueries ==
    {"", "hello", "Subtract 5 from my portfolio", "stock market news",
     "Convert 100 USD to EUR"}

\* result.final_output of a run that succeeds
FinalOutputs == {"Here is the answer."}

\* str(e) of the exceptions Runner.run raises
RunnerFailures ==
    {"Error code: 401 - User not found", "Error code: 429 - Rate limit exceeded",
     "Error code: 402 - This request requires more credits", "authentication failed",
     "maximum token count exceeded", "Connection error."}

\* str(e) of every exception the try block can meet
FailureTexts == RunnerFailures \cup {NameErrorText("openai_key")}

OpenAiKeys == {None, Some(""), Some("sk-or-v1-demo"), Some("sk-proj-demo")}
GoogleKeys == {None, Some("AIza-demo")}

EnvOf(openai, google) ==
    [n \in (IF openai = None THEN {} ELSE {"OPENAI_API_KEY"})
           \cup (IF google = None THEN {} ELSE {"GOOGLE_API_KEY"}) |->
        IF n = "OPENAI_API_KEY" THEN openai[1] ELSE google[1]]

\* contents of the .env file that load_dotenv() reads
DotenvFiles ==
    {EnvOf(Some("sk-or-v1-demo"), None), EnvOf(None, Some("AIza-demo"))}

\* a credential is configured: some key variable is set and non-empty
CredentialConfigured(e) ==
    Truthy(GetEnvOpt(e, "OPENAI_API_KEY")) \/ Truthy(GetEnvOpt(e, "GOOGLE_API_KEY"))

(***************************************************************************)
(* State.                                                                  *)
(***************************************************************************)
VARIABLES
    env,        \* os.environ
    tools,      \* Agent.tools of each agent
    session_state, \* st.session_state of the web UI: session and messages
    nsessions,  \* SQLiteSession objects the web UI has constructed
    sessions,   \* the turns each SQLiteSession holds
    pc,         \* "idle", or "awaiting" while a call awaits Runner.run
    call,       \* the call in progress
    last,       \* the call that completed last
    ncalls,     \* run_finance_agent calls started
    runCalls,   \* per session: completed calls that were given it
    okCalls,    \* per session: of these, the calls that returned the assistant's output
    errorsSeen, \* <<cause, label>> of every error string returned so far
    probe       \* the pure-function harness (SpecPure)

vars ==
    <<env, tools, session_state, nsessions, sessions, pc, call, last, ncalls,
      runCalls, okCalls, errorsSeen, probe>>

handlerVars ==
    <<env, tools, session_state, nsessions, sessions, pc, call, last, ncalls,
      runCalls, okCalls, errorsSeen>>

\* ui: the call was made by the web UI's input handler
NoCall ==
    [query |-> "", session |-> None, target |-> "", configured |-> FALSE,
     invoked |-> 0, ui |-> FALSE]

\* used: the financial function the run invoked, if any
NoLast ==
    [done |-> FALSE, query |-> "", session |-> None, configured |-> FALSE,
     stage |-> "none", error_msg |-> None, invoked |-> 0, target |-> "",
     outcome |-> Returned(""), used |-> None, ui |-> FALSE]

NoSessionState == [session |-> None, messages |-> << >>]

NoProbe == [kind |-> "none", text |-> "", result |-> ""]

Init ==
    /\ env \in {EnvOf(o, g) : o \in OpenAiKeys, g \in GoogleKeys}
    /\ tools = AgentTools
    /\ session_state = NoSessionState
    /\ nsessions = 0
    /\ sessions = [id \in SessionIds |-> << >>]
    /\ pc = "idle"
    /\ call = NoCall
    /\ last = NoLast
    /\ ncalls = 0
    /\ runCalls = [id \in SessionIds |-> 0]
    /\ okCalls = [id \in SessionIds |-> 0]
    /\ errorsSeen = {}
    /\ probe = NoProbe

(***************************************************************************)
(* What an observer reads off a returned error string, and the cause of    *)
(* the error.                                                              *)
(***************************************************************************)
RECURSIVE StripLeft(_)
StripLeft(s) ==
    IF Len(s) > 0 /\ SubSeq(s, 1, 1) = " " THEN StripLeft(SubSeq(s, 2, Len(s))) ELSE s

RECURSIVE UpToColon(_)
UpToColon(s) ==
    IF Len(s) = 0 \/ SubSeq(s, 1, 1) = ":" THEN ""
    ELSE SubSeq(s, 1, 1) \o UpToColon(SubSeq(s, 2, Len(s)))

\* the classification label: the text between the warning sign and the first colon
LabelOf(v) ==
    IF StartsWith(v, WarningSign)
    THEN UpToColon(StripLeft(SubSeq(v, Len(WarningSign) + 1, Len(v))))
    ELSE "<no warning sign>"

\* the category of an error by its cause: no credential configured, or else
\* what the failure's message says
ErrorCause(configured, error_msg) ==
    IF ~configured THEN "configuration"
    ELSE IF error_msg = None THEN "none"
    ELSE LET m == error_msg[1] IN
         IF Contains(m, "401") \/ Contains(m, "User not found") THEN "authentication"
         ELSE IF Contains(m, "429") \/ Contains(Lower(m), "rate limit") THEN "rate-limit"
         ELSE IF Contains(m, "402") THEN "payload-too-large"
         ELSE "unknown"

(***************************************************************************)
(* run_finance_agent.  The string computations are functions of the input  *)
(* alone; they are tabulated once over the input sets.                     *)
(***************************************************************************)
RouteTable == [q \in HandlerQueries |-> RouteTarget(q)]
FailureOutcome == [m \in FailureTexts |-> RunOutcomeOnFailure(m)]
ErrorPair ==
    [c \in BOOLEAN, m \in FailureTexts |->
        <<ErrorCause(c, Some(m)),
          IF FailureOutcome[m].kind = "returned" THEN LabelOf(FailureOutcome[m].value)
          ELSE "<raised>">>]
NoKeyPair == [c \in BOOLEAN |-> <<ErrorCause(c, None), LabelOf(NoApiKeyText)>>]

Turn(role, content) == [role |-> role, content |-> content]

CrossMark == "<U+274C>"

\* the except branch of the web UI's input handlers, given error_msg = str(e)
AppExceptHandler(error_msg) ==
    IF Contains(error_msg, "402") \/ Contains(Lower(error_msg), "token")
    THEN WarningSign \o " **Token Limit Error**: The request was too large. Please try a shorter query."
    ELSE IF Contains(error_msg, "401") \/ Contains(Lower(error_msg), "authentication")
    THEN WarningSign \o " **Authentication Error**: Please check your API key in the .env file."
    ELSE IF Contains(error_msg, "429") \/ Contains(Lower(error_msg), "rate limit")
    THEN WarningSign \o " **Rate Limit**: Too many requests. Please wait a moment and try again."
    ELSE CrossMark \o " **Error**: " \o error_msg

AppErrorTable == [m \in FailureTexts |-> AppExceptHandler(m)]

\* how the web UI's input handlers show the response that run_finance_agent
\* returned: st.warning when the error test holds, st.markdown otherwise
ResponseStyle(response) ==
    IF Contains(response, WarningSign)
          /\ (Contains(response, "Token Limit") \/ Contains(response, "API Error"))
    THEN "warning" ELSE "markdown"

\* the content of the assistant message the web UI appends for a call's outcome
AssistantContent(outcome) ==
    IF outcome.kind = "returned" THEN outcome.value ELSE AppErrorTable[outcome.value]

\* a slip in the web UI's handler: a response that is an error is shown and
\* not stored in the transcript
FinishDropsErrors(c, stage, error_msg, outcome, used, ss) ==
    /\ last' = [done |-> TRUE, query |-> c.query, session |-> c.session,
                configured |-> c.configured, stage |-> stage, error_msg |-> error_msg,
                invoked |-> c.invoked, target |-> c.target, outcome |-> outcome,
                used |-> used, ui |-> c.ui]
    /\ runCalls' = IF c.session = None THEN runCalls
                   ELSE [runCalls EXCEPT ![c.session[1]] = @ + 1]
    /\ okCalls' = IF c.session = None \/ stage # "ok" THEN okCalls
                  ELSE [okCalls EXCEPT ![c.session[1]] = @ + 1]
    /\ errorsSeen' =
          IF stage = "ok" \/ outcome.kind # "returned" THEN errorsSeen
          ELSE IF error_msg = None THEN errorsSeen \cup {NoKeyPair[c.configured]}
          ELSE errorsSeen \cup {ErrorPair[c.configured, error_msg[1]]}
    /\ session_state' =
          IF c.ui /\ stage = "ok"
          THEN [ss EXCEPT !.messages = @ \o <<Turn("assistant", AssistantContent(outcome))>>]
          ELSE ss
    /\ pc' = "idle"
    /\ call' = NoCall

\* the call c leaves run_finance_agent with `outcome`; ss is st.session_state
\* as the caller has it then, and the web UI's handler appends its assistant
\* message to it
Finish(c, stage, error_msg, outcome, used, ss) ==
    /\ last' = [done |-> TRUE, query |-> c.query, session |-> c.session,
                configured |-> c.configured, stage |-> stage, error_msg |-> error_msg,
                invoked |-> c.invoked, target |-> c.target, outcome |-> outcome,
                used |-> used, ui |-> c.ui]
    /\ runCalls' = IF c.session = None THEN runCalls
                   ELSE [runCalls EXCEPT ![c.session[1]] = @ + 1]
    /\ okCalls' = IF c.session = None \/ stage # "ok" THEN okCalls
                  ELSE [okCalls EXCEPT ![c.session[1]] = @ + 1]
    /\ errorsSeen' =
          IF stage = "ok" \/ outcome.kind # "returned" THEN errorsSeen
          ELSE IF error_msg = None THEN errorsSeen \cup {NoKeyPair[c.configured]}
          ELSE errorsSeen \cup {ErrorPair[c.configured, error_msg[1]]}
    /\ session_state' =
          IF c.ui
          THEN [ss EXCEPT !.messages = @ \o <<Turn("assistant", AssistantContent(outcome))>>]
          ELSE ss
    /\ pc' = "idle"
    /\ call' = NoCall

\* a slip in the routing: a call that follows a routed call stays with the
\* specialist of that call
run_finance_agentKeepsTarget(e, q, s, ui, ss) ==
    LET k          == get_api_key(e)
        configured == CredentialConfigured(e)
        c          == [query |-> q, session |-> s, target |-> "",
                       configured |-> configured, invoked |-> 0, ui |-> ui]
    IN  /\ sessions' = sessions
        /\ IF k.raised
           THEN /\ env' = e
                /\ Finish(c, "lookup", Some(k.exc), FailureOutcome[k.exc], None, ss)
           ELSE IF ~Truthy(k.api_key)
           THEN /\ env' = e
                /\ Finish(c, "nokey", None, Returned(NoApiKeyText), None, ss)
           ELSE /\ env' = ConfigureProvider(e, k)
                /\ pc' = "awaiting"
                /\ call' = [c EXCEPT !.target = IF last.done /\ last.invoked = 1
                                                THEN last.target ELSE RouteTable[q],
                                     !.invoked = 1]
                /\ session_state' = ss
                /\ UNCHANGED <<last, runCalls, okCalls, errorsSeen>>

\* a slip in the order: the user's turn is stored in the session on entry,
\* before the credential is looked up
run_finance_agentStoresOnEntry(e, q, s, ui, ss) ==
    LET k          == get_api_key(e)
        configured == CredentialConfigured(e)
        c          == [query |-> q, session |-> s, target |-> "",
                       configured |-> configured, invoked |-> 0, ui |-> ui]
    IN  /\ sessions' = IF s = None THEN sessions
                       ELSE [sessions EXCEPT ![s[1]] = @ \o <<[role |-> "user", content |-> q]>>]
        /\ IF k.raised
           THEN /\ env' = e
                /\ Finish(c, "lookup", Some(k.exc), FailureOutcome[k.exc], None, ss)
           ELSE IF ~Truthy(k.api_key)
           THEN /\ env' = e
                /\ Finish(c, "nokey", None, Returned(NoApiKeyText), None, ss)
           ELSE /\ env' = ConfigureProvider(e, k)
                /\ pc' = "awaiting"
                /\ call' = [c EXCEPT !.target = RouteTable[q], !.invoked = 1]
                /\ session_state' = ss
                /\ UNCHANGED <<last, runCalls, okCalls, errorsSeen>>

\* lines 415-476: run_finance_agent(query, session) entered with os.environ = e,
\* from the call to the await of Runner.run, or to an early return; nothing
\* before the await touches the session
run_finance_agent(e, q, s, ui, ss) ==
    LET k          == get_api_key(e)
        configured == CredentialConfigured(e)
        c          == [query |-> q, session |-> s, target |-> "",
                       configured |-> configured, invoked |-> 0, ui |-> ui]
    IN  /\ sessions' = sessions
        /\ IF k.raised
           THEN /\ env' = e
                /\ Finish(c, "lookup", Some(k.exc), FailureOutcome[k.exc], None, ss)
           ELSE IF ~Truthy(k.api_key)
           THEN /\ env' = e
                /\ Finish(c, "nokey", None, Returned(NoApiKeyText), None, ss)
           ELSE /\ env' = ConfigureProvider(e, k)
                /\ pc' = "awaiting"
                /\ call' = [c EXCEPT !.target = RouteTable[q], !.invoked = 1]
                /\ session_state' = ss
                /\ UNCHANGED <<last, runCalls, okCalls, errorsSeen>>

\* a direct call: main() with its session, the tests and examples with none
RunStart(q, s) ==
    /\ pc = "idle"
    /\ ncalls < MaxCalls
    /\ ncalls' = ncalls + 1
    /\ run_finance_agent(env, q, s, FALSE, session_state)
    /\ UNCHANGED <<tools, nsessions, probe>>

\* a slip in the session write: the new turns are put before the older ones
RunnerReturnsPrepend(r, f) ==
    /\ pc = "awaiting"
    /\ IF f = None THEN TRUE ELSE f[1] \in Invocable(tools, call.target)
    /\ sessions' =
          IF call.session = None THEN sessions
          ELSE [sessions EXCEPT ![call.session[1]] =
                   <<Turn("user", call.query), Turn("assistant", r)>> \o @]
    /\ Finish(call, "ok", None, Returned(r), f, session_state)
    /\ UNCHANGED <<env, tools, nsessions, ncalls, probe>>

\* lines 472-478: Runner.run succeeds, having invoked the function f if any;
\* with a session it has appended the user's input and the assistant's output
RunnerReturns(r, f) ==
    /\ pc = "awaiting"
    /\ IF f = None THEN TRUE ELSE f[1] \in Invocable(tools, call.target)
    /\ sessions' =
          IF call.session = None THEN sessions
          ELSE [sessions EXCEPT ![call.session[1]] =
                   @ \o <<Turn("user", call.query), Turn("assistant", r)>>]
    /\ Finish(call, "ok", None, Returned(r), f, session_state)
    /\ UNCHANGED <<env, tools, nsessions, ncalls, probe>>

\* a retry loop around the await: a failed Runner.run is awaited once more
RunnerRaisesRetry(m) ==
    /\ pc = "awaiting"
    /\ IF call.invoked < 2
       THEN /\ call' = [call EXCEPT !.invoked = @ + 1]
            /\ UNCHANGED <<pc, last, runCalls, okCalls, errorsSeen, session_state>>
       ELSE Finish(call, "assistant", Some(m), FailureOutcome[m], None, session_state)
    /\ UNCHANGED <<env, tools, nsessions, sessions, ncalls, probe>>

\* lines 472-490: Runner.run raises; the session is as it was
RunnerRaises(m) ==
    /\ pc = "awaiting"
    /\ Finish(call, "assistant", Some(m), FailureOutcome[m], None, session_state)
    /\ UNCHANGED <<env, tools, nsessions, sessions, ncalls, probe>>

(***************************************************************************)
(* The web UI (app.py).  Every interaction runs the script from the top.   *)
(***************************************************************************)
\* os.environ[name] = value
SetEnv(e, name, value) ==
    [n \in DOMAIN e \cup {name} |-> IF n = name THEN value ELSE e[n]]

\* the sidebar's session init: a session is constructed when none is stored
SessionInit(ss) ==
    IF ss.session = None
    THEN [ss EXCEPT !.session = Some(WebSessionId(nsessions + 1))]
    ELSE ss

Constructed(ss) == IF ss.session = None THEN nsessions + 1 ELSE nsessions

\* the examples of the sidebar and the texts typed into the chat input; the
\* handlers skip an empty input
UiInputs == HandlerQueries \ {""}

\* a slip in the clear button: the stored session is dropped with the
\* messages, and the rerun constructs a new one
UiClearChatAll(file) ==
    /\ pc = "idle"
    /\ env' = load_dotenv(env, file)
    /\ session_state' =
          [session |-> Some(WebSessionId(Constructed(session_state) + 1)),
           messages |-> << >>]
    /\ nsessions' = Constructed(session_state) + 1
    /\ UNCHANGED <<tools, sessions, pc, call, last, ncalls, runCalls, okCalls,
                   errorsSeen, probe>>

\* a run of the script with no widget value: load_dotenv(), session init
UiRerun(file) ==
    /\ pc = "idle"
    /\ env' = load_dotenv(env, file)
    /\ session_state' = SessionInit(session_state)
    /\ nsessions' = Constructed(session_state)
    /\ UNCHANGED <<tools, sessions, pc, call, last, ncalls, runCalls, okCalls,
                   errorsSeen, probe>>

\* 'Clear Chat History': the messages are emptied and st.rerun() runs the
\* script again
UiClearChat(file) ==
    /\ pc = "idle"
    /\ env' = load_dotenv(env, file)
    /\ session_state' = [SessionInit(session_state) EXCEPT !.messages = << >>]
    /\ nsessions' = Constructed(session_state)
    /\ UNCHANGED <<tools, sessions, pc, call, last, ncalls, runCalls, okCalls,
                   errorsSeen, probe>>

\* an example button or a typed input: the user message is appended and
\* run_finance_agent is called with the stored session
UiInput(q, file) ==
    /\ pc = "idle"
    /\ ncalls < MaxCalls
    /\ ncalls' = ncalls + 1
    /\ nsessions' = Constructed(session_state)
    /\ LET ss1 == SessionInit(session_state)
           ss2 == [ss1 EXCEPT !.messages = @ \o <<Turn("user", q)>>]
           e1  == SetEnv(load_dotenv(env, file), "OPENAI_AGENTS_DISABLE_TRACING", "1")
       IN  run_finance_agent(e1, q, ss1.session, TRUE, ss2)
    /\ UNCHANGED <<tools, probe>>

\* the financial function a run invoked: none, or one of them
ToolUses == {None} \cup {Some(f) : f \in ToolNames}

Next ==
    \/ \E q \in HandlerQueries, s \in SessionArgs : RunStart(q, s)
    \/ \E r \in FinalOutputs, f \in ToolUses : RunnerReturns(r, f)
    \/ \E m \in RunnerFailures : RunnerRaises(m)
    \/ \E file \in DotenvFiles : UiRerun(file)
    \/ \E file \in DotenvFiles : UiClearChat(file)
    \/ \E q \in UiInputs, file \in DotenvFiles : UiInput(q, file)

Spec == Init /\ [][Next]_vars

(***************************************************************************)
(* The pure functions, applied to inputs drawn from bounded sets.          *)
(***************************************************************************)
QueryWords ==
    {"Subtract", "portfolio", "Stock", "news", "Convert", "address", "hello",
     "exchange", "rate"}

MessageFragments ==
    {"401", "User not found", "user not found", "429", "Rate Limit", "402",
     "token", "authentication", "Connection error.",
     "name 'openai_key' is not defined"}

RECURSIVE Phrases(_, _)
\* the texts of at most n of the words, joined by single spaces
Phrases(words, n) ==
    IF n = 0 THEN {""}
    ELSE LET shorter == Phrases(words, n - 1)
         IN  shorter \cup {IF Len(t) = 0 THEN w ELSE t \o " " \o w :
                              t \in shorter, w \in words}

\* the capability queries of the tests
CapabilityQueries ==
    {"What's the current price of AAPL?",
     "Analyze my portfolio with 50 shares of MSFT at $300",
     "What's the latest market news?",
     "Convert 100 USD to EUR",
     "Calculate returns for a $10000 investment now worth $15000 over 3 years",
     "Assess portfolio risk with beta 1.2, volatility 20%, diversification score 7"}

Queries == Phrases(QueryWords, MaxWords) \cup CapabilityQueries
Messages == Phrases(MessageFragments, MaxFragments)

ProbeRoute(q) ==
    /\ probe.kind = "none"
    /\ probe' = [kind |-> "route", text |-> q, result |-> RouteTarget(q)]
    /\ UNCHANGED handlerVars

ProbeExcept(m) ==
    /\ probe.kind = "none"
    /\ probe' = [kind |-> "except", text |-> m, result |-> ExceptHandler(m)]
    /\ UNCHANGED handlerVars

\* one failure message given to both except handlers
ProbeMappings(m) ==
    /\ probe.kind = "none"
    /\ probe' = [kind |-> "mappings", text |-> m,
                 result |-> <<ExceptHandler(m), AppExceptHandler(m)>>]
    /\ UNCHANGED handlerVars

\* arguments of calculate_returns
Investments == {-100, 0, 100, 25000}
FinalValues == {-100, 0, 100, 105, 106, 110, 111, 121, 122, 150, 26251, 27501}
Periods == {-2, -1, 0, 1, 2, 3}

ProbeReturns(i, f, y, up) ==
    /\ probe.kind = "none"
    /\ probe' = [kind |-> "returns", args |-> <<i, f, y>>,
                 result |-> calculate_returns(i, f, y, up)]
    /\ UNCHANGED handlerVars

\* arguments of currency_converter: amounts in cents, codes of the table
Amounts == (0 - MaxAmountCents)..MaxAmountCents
Currencies == DOMAIN exchange_rates

\* holdings of whole shares (a short position is negative) at whole-dollar
\* costs, and quotes inside random.uniform(50, 500)
ShareCounts == {-1, 0, 1, 2}
AverageCosts == {0, 100, 300}
QuotePrices == {50, 120, 500}
Holdings == {PortfolioHolding("aapl", s, c) : s \in ShareCounts, c \in AverageCosts}
HoldingLists == UNION {[1..n -> Holdings] : n \in 0..MaxHoldings}

ProbePortfolio ==
    /\ probe.kind = "none"
    /\ \E holdings \in HoldingLists, up \in BOOLEAN :
          \E prices \in [1..Len(holdings) -> QuotePrices] :
             probe' = [kind |-> "portfolio", args |-> holdings,
                       result |-> analyze_portfolio(holdings, prices, up)]
    /\ UNCHANGED handlerVars

\* one conversion of some amount between any two codes
ProbeConvert ==
    /\ probe.kind = "none"
    /\ \E x \in Amounts, a \in CurrencyCodes, b \in CurrencyCodes, up \in BOOLEAN :
          probe' = [kind |-> "convert", args |-> <<x, a, b>>,
                    result |-> currency_converter(x, a, b, up)]
    /\ UNCHANGED handlerVars

\* a conversion of some amount from a to b, and the conversion of its value
\* back
ProbeRoundTrip ==
    /\ probe.kind = "none"
    /\ \E x \in Amounts, a \in Currencies, b \in Currencies, up1 \in BOOLEAN,
          up2 \in BOOLEAN :
          LET there == currency_converter(x, a, b, up1)
              back  == currency_converter(there, b, a, up2)
          IN  probe' = [kind |-> "roundtrip", args |-> <<x, a, b>>,
                        result |-> <<there, back>>]
    /\ UNCHANGED handlerVars

\* arguments of risk_assessment: betas in hundredths, volatilities in tenths
\* of a percent, diversification scores
Betas == {50, 80, 81, 100, 120, 121, 130, 200}
Volatilities == {50, 100, 150, 151, 200, 250, 251, 400}
Scores == {0, 1, 3, 5, 6, 7, 10, 11}

ProbeRisk(beta, volatility, score) ==
    /\ probe.kind = "none"
    /\ probe' = [kind |-> "risk", args |-> <<beta, volatility, score>>,
                 result |-> risk_assessment(beta, volatility, score)]
    /\ UNCHANGED handlerVars

InitPure == Init /\ env = EnvOf(None, None)

NextPure ==
    \/ \E q \in Queries : ProbeRoute(q)
    \/ \E m \in Messages : ProbeExcept(m)
    \/ \E i \in Investments, f \in FinalValues, y \in Periods, up \in BOOLEAN :
          ProbeReturns(i, f, y, up)
    \/ \E beta \in Betas, volatility \in Volatilities, score \in Scores :
          ProbeRisk(beta, volatility, score)
    \/ ProbeRoundTrip
    \/ ProbeConvert
    \/ ProbePortfolio
    \/ \E m \in Messages : ProbeMappings(m)

SpecPure == InitPure /\ [][NextPure]_vars

(***************************************************************************)
(* Properties of the routing.                                              *)
(***************************************************************************)
ProbedRoute == probe.kind = "route"
ProbedLower == Lower(probe.text)

\* C1: the target is decided by the first keyword set, in the order math,
\* stock, portfolio, news, currency, that has a keyword contained in the
\* lower-cased query (math -> currency specialist, stock -> stock specialist,
\* portfolio -> portfolio specialist, news -> market specialist, currency ->
\* currency specialist); the triage agent is chosen only when no set matches;
\* a query containing "subtract" and "portfolio" goes to the currency specialist.
C1_FirstMatchDecides ==
    ProbedRoute =>
        LET ql   == ProbedLower
            math == AnyIn(math_keywords, ql)
            stk  == AnyIn(stock_keywords, ql)
            prt  == AnyIn(portfolio_keywords, ql)
            nws  == AnyIn(news_keywords, ql)
            cur  == AnyIn(currency_keywords, ql)
        IN  /\ math => probe.result = currency_agent
            /\ (~math /\ stk) => probe.result = stock_agent
            /\ (~math /\ ~stk /\ prt) => probe.result = portfolio_agent
            /\ (~math /\ ~stk /\ ~prt /\ nws) => probe.result = market_agent
            /\ (~math /\ ~stk /\ ~prt /\ ~nws /\ cur) => probe.result = currency_agent
            /\ (probe.result = triage_agent) <=> ~(math \/ stk \/ prt \/ nws \/ cur)
            /\ (Contains(ql, "subtract") /\ Contains(ql, "portfolio"))
                  => probe.result = currency_agent

C1_Witness ==
    /\ ProbedRoute
    /\ Contains(ProbedLower, "subtract")
    /\ Contains(ProbedLower, "portfolio")
    /\ probe.result = currency_agent

\* C2 as stated: every query with a stock keyword and a news keyword is routed
\* to the stock specialist.
C2_StockAndNewsIsStock ==
    (ProbedRoute /\ AnyIn(stock_keywords, ProbedLower) /\ AnyIn(news_keywords, ProbedLower))
        => probe.result = stock_agent

\* C2, amended: a query with a stock keyword and a news keyword is never routed
\* to the market (news) specialist; it is routed to the stock specialist unless
\* it also contains a math keyword, and then to the currency specialist.
C2_StockBeforeNews ==
    (ProbedRoute /\ AnyIn(stock_keywords, ProbedLower) /\ AnyIn(news_keywords, ProbedLower))
        => /\ probe.result # market_agent
           /\ ~AnyIn(math_keywords, ProbedLower) => probe.result = stock_agent
           /\ AnyIn(math_keywords, ProbedLower) => probe.result = currency_agent

C2_Witness ==
    /\ ProbedRoute
    /\ AnyIn(stock_keywords, ProbedLower)
    /\ AnyIn(news_keywords, ProbedLower)
    /\ ~AnyIn(math_keywords, ProbedLower)
    /\ probe.result = stock_agent

(***************************************************************************)
(* Properties of the handler.                                              *)
(***************************************************************************)
\* C3 as stated: with no credential configured the call returns the
\* "No API key configured" string, without classifying the query and without
\* invoking Runner.run.
C3_NoKeyReturnsConfigError ==
    (last.done /\ ~last.configured)
        => /\ last.outcome = Returned(NoApiKeyText)
           /\ last.target = ""
           /\ last.invoked = 0

\* C4: no failure leaves run_finance_agent as an exception; whatever fails
\* during the credential lookup, the configuration, the routing or the
\* assistant call, the call returns a string that starts with the warning sign.
C4_FailuresAreReturned ==
    /\ last.outcome.kind = "returned"
    /\ (last.done /\ last.error_msg # None) => StartsWith(last.outcome.value, WarningSign)

C4_Witness ==
    /\ last.done
    /\ last.stage = "assistant"
    /\ last.error_msg = Some("Connection error.")
    /\ last.outcome = Returned(ErrorPrefix \o "Connection error.")

Alternates(turns) ==
    \A i \in 1..Len(turns) :
        turns[i].role = (IF i % 2 = 1 THEN "user" ELSE "assistant")

ErrorReturned == last.done /\ last.stage # "ok"

ProbedExcept == probe.kind = "except"

\* C7 as stated: every failure whose message contains "429" or, in any case,
\* "rate limit" is returned as the rate-limit error, whatever else it contains.
C7_RateLimitAlways ==
    (ProbedExcept /\ (Contains(probe.text, "429") \/ Contains(Lower(probe.text), "rate limit")))
        => probe.result = RateLimitText

\* C7, amended: a failure whose message contains "429" or, in any case, "rate
\* limit" is returned as the rate-limit error, with its wait-and-retry hint,
\* unless the message also contains "401" or "User not found"; those are tested
\* first and make it the API error.
C7_RateLimitUnlessAuth ==
    (ProbedExcept /\ (Contains(probe.text, "429") \/ Contains(Lower(probe.text), "rate limit")))
        => IF Contains(probe.text, "401") \/ Contains(probe.text, "User not found")
           THEN probe.result = ApiErrorText
           ELSE /\ probe.result = RateLimitText
                /\ Contains(probe.result, "Please wait a moment and try again")

C7_Witness ==
    /\ ProbedExcept
    /\ ~Contains(probe.text, "429")
    /\ ~Contains(probe.text, "rate limit")
    /\ Contains(Lower(probe.text), "rate limit")
    /\ Contains(probe.text, "402")
    /\ probe.result = RateLimitText

\* C8 as stated: every failure whose message contains "401", "authentication"
\* or "User not found" is returned as the authentication-class error.
C8_AuthenticationMapped ==
    (ProbedExcept /\ (\/ Contains(probe.text, "401")
                      \/ Contains(probe.text, "authentication")
                      \/ Contains(probe.text, "User not found")))
        => probe.result = ApiErrorText

\* C9 as stated: every failure whose message contains "402" or "token" is
\* returned as the token-limit error.
C9_TokenLimitMapped ==
    (ProbedExcept /\ (Contains(probe.text, "402") \/ Contains(probe.text, "token")))
        => probe.result = TokenLimitText

\* C10: a failure whose message matches none of the authentication,
\* rate-limit and payload-too-large codes and substrings is returned as the
\* generic prefix followed by the message, character for character.
C10_UnknownVerbatim ==
    (ProbedExcept
        /\ ~Contains(probe.text, "401")
        /\ ~Contains(Lower(probe.text), "authentication")
        /\ ~Contains(probe.text, "User not found")
        /\ ~Contains(probe.text, "429")
        /\ ~Contains(Lower(probe.text), "rate limit")
        /\ ~Contains(probe.text, "402")
        /\ ~Contains(Lower(probe.text), "token"))
        => /\ probe.result = ErrorPrefix \o probe.text
           /\ SubSeq(probe.result, Len(ErrorPrefix) + 1, Len(probe.result)) = probe.text

C10_Witness ==
    /\ ProbedExcept
    /\ probe.text = "Connection error. user not found"
    /\ probe.result = WarningSign \o " Error: Connection error. user not found"


\* C11: one run_finance_agent call invokes Runner.run at most once: a call that
\* awaits Runner.run has invoked it once, a failure of Runner.run ends the call
\* with its error string without a second attempt, and Runner.run is invoked
\* again only by a new run_finance_agent call.
C11_NoRetryWithinCall ==
    /\ [](/\ pc = "awaiting" => call.invoked = 1
          /\ last.invoked <= 1
          /\ (last.done /\ last.stage = "assistant")
                => /\ last.invoked = 1
                   /\ last.outcome = Returned(ExceptHandler(last.error_msg[1])))
    /\ [][/\ pc = "awaiting" => (pc' = "idle" /\ last'.invoked = 1)
          /\ call'.invoked > call.invoked => ncalls' = ncalls + 1]_vars

C11_Witness ==
    /\ last.done
    /\ last.stage = "assistant"
    /\ last.error_msg = Some("Error code: 429 - Rate limit exceeded")
    /\ last.invoked = 1
    /\ last.outcome = Returned(RateLimitText)
    /\ pc = "idle"
    /\ ncalls = 1


C13_ToolSetsFixed ==
    /\ [](/\ tools[stock_agent] = {"get_stock_price"}
          /\ tools[portfolio_agent] =
                {"analyze_portfolio", "calculate_returns", "risk_assessment"}
          /\ tools[market_agent] = {"get_market_news"}
          /\ tools[currency_agent] = {"currency_converter"}
          /\ (last.done /\ last.used # None) =>
                /\ last.target = stock_agent => last.used = Some("get_stock_price")
                /\ last.target = market_agent => last.used = Some("get_market_news")
                /\ last.target = currency_agent => last.used = Some("currency_converter")
                /\ last.target = portfolio_agent =>
                      last.used[1] \in {"analyze_portfolio", "calculate_returns",
                                        "risk_assessment"})
    /\ [][tools' = tools]_vars

C13_Witness ==
    /\ last.done
    /\ last.query = "Convert 100 USD to EUR"
    /\ last.target = currency_agent
    /\ last.used = Some("currency_converter")
    /\ tools[last.target] = {"currency_converter"}


\* the financial function each capability query asks for
AskedFunction ==
    [q \in CapabilityQueries |->
        IF q = "What's the current price of AAPL?" THEN "get_stock_price"
        ELSE IF q = "Analyze my portfolio with 50 shares of MSFT at $300"
        THEN "analyze_portfolio"
        ELSE IF q = "What's the latest market news?" THEN "get_market_news"
        ELSE IF q = "Convert 100 USD to EUR" THEN "currency_converter"
        ELSE IF q = "Calculate returns for a $10000 investment now worth $15000 over 3 years"
        THEN "calculate_returns"
        ELSE "risk_assessment"]

\* C14 as stated: for each capability query of the tests, the specialist that
\* the routing selects has the financial function the query asks for in its
\* tool set.
C14_CapabilityReachesItsFunction ==
    (ProbedRoute /\ probe.text \in CapabilityQueries)
        => AskedFunction[probe.text] \in tools[probe.result]


(***************************************************************************)
(* Properties of the state shared between calls.                           *)
(***************************************************************************)
\* a step that is a direct run_finance_agent call, up to its await or return
DirectCallStep == ncalls' = ncalls + 1 /\ session_state' = session_state
\* a step that is the web UI's handler calling run_finance_agent
UiCallStep == ncalls' = ncalls + 1 /\ session_state' # session_state

\* what a run_finance_agent call reads from os.environ
RunReads(e) ==
    <<GetEnv(e, "OPENAI_API_KEY", ""), GetEnvOpt(e, "GOOGLE_API_KEY"),
      GetEnv(e, "OPENAI_BASE_URL", DefaultBaseUrl)>>

\* the run call wrote env2 over env1 without changing a variable that was
\* set, adding at most OPENAI_BASE_URL, and without changing what a call reads
WritesKeepReads(env1, env2) ==
    /\ \A n \in DOMAIN env1 : n \in DOMAIN env2 /\ env2[n] = env1[n]
    /\ DOMAIN env2 \subseteq DOMAIN env1 \cup {"OPENAI_BASE_URL"}
    /\ RunReads(env2) = RunReads(env1)
    /\ get_api_key(env2) = get_api_key(env1)

IsPrefix(s, t) == Len(s) <= Len(t) /\ SubSeq(t, 1, Len(s)) = s

\* C16: in the web UI the session is constructed exactly once, by the first
\* run of the script; every later rerun and every run_finance_agent call of
\* the UI uses that session; no UI action, 'Clear Chat History' included,
\* replaces the stored session or removes a turn from it.
C16_SessionCreatedOnceAndKept ==
    /\ [](/\ nsessions <= 1
          /\ session_state.session = None <=> nsessions = 0
          /\ session_state.session # None => session_state.session = Some(WebSessionId(1))
          /\ (pc = "awaiting" /\ call.ui) => call.session = session_state.session
          /\ (last.done /\ last.ui) => last.session = session_state.session)
    /\ [][/\ (session_state.session = None /\ session_state' # session_state)
               => (session_state'.session # None /\ nsessions' = 1)
          /\ session_state.session # None =>
                /\ session_state'.session = session_state.session
                /\ IsPrefix(sessions[session_state.session[1]],
                            sessions'[session_state.session[1]])]_vars

C16_Witness ==
    /\ session_state.session = Some(WebSessionId(1))
    /\ nsessions = 1
    /\ Len(sessions[WebSessionId(1)]) = 2
    /\ session_state.messages = << >>
    /\ last.ui
    /\ ncalls = 1


(***************************************************************************)
(* Properties of the financial functions.                                  *)
(***************************************************************************)
ProbedReturns == probe.kind = "returns"

\* C17 as stated: calculate_returns fails with an InvalidArgument error, and
\* never with a raw numeric fault, whenever initial_investment <= 0 or
\* period_years <= 0.
C17_ReturnsRejectsNonPositive ==
    (ProbedReturns /\ (probe.args[1] <= 0 \/ probe.args[3] <= 0))
        => probe.result.raised = "InvalidArgument"


ProbedRoundTrip == probe.kind = "roundtrip"
Abs(n) == IF n >= 0 THEN n ELSE 0 - n

ProbedRisk == probe.kind = "risk"

\* C19: risk_assessment reports High when beta > 1.2 or volatility > 25,
\* otherwise Medium when beta > 0.8 or volatility > 15, otherwise Low; the
\* four comparisons are strict and the High test comes first: an input that
\* meets a High and a Medium condition is High, and beta 1.2 with volatility
\* 20 is Medium.
C19_RiskTiers ==
    ProbedRisk =>
        LET beta  == probe.args[1]
            vol   == probe.args[2]
            level == probe.result.risk_level
        IN  /\ level \in {"High", "Medium", "Low"}
            /\ level = "High" <=> (beta > 120 \/ vol > 250)
            /\ level = "Low" <=> (beta <= 80 /\ vol <= 150)
            /\ level = "Medium" <=>
                  (beta <= 120 /\ vol <= 250 /\ (beta > 80 \/ vol > 150))
            /\ ((beta > 120 \/ vol > 250) /\ (beta > 80 \/ vol > 150)) => level = "High"
            /\ (beta = 120 /\ vol = 200) => level = "Medium"
            /\ (beta = 120 /\ vol = 250) => level = "Medium"
            /\ (beta = 80 /\ vol = 150) => level = "Low"

C19_Witness ==
    /\ ProbedRisk
    /\ probe.args[1] = 120
    /\ probe.args[2] = 200
    /\ probe.result.risk_level = "Medium"

DiversificationLine == "Improve diversification across sectors"

\* C20: the recommendation is the list of the risk tier (three items for
\* High, two for Medium, two for Low) joined by "; ", and the 'Improve
\* diversification' line is its last item exactly when diversification_score
\* < 6, whatever the tier; a score of 6 does not add it; beta 1.3, volatility
\* 10, score 3 gives High with the diversification line.
C20_RecommendationByTierAndScore ==
    ProbedRisk =>
        LET score == probe.args[3]
            level == probe.result.risk_level
            items == probe.result.items
            own   == IF level = "High"
                     THEN "Consider reducing high-beta positions; Add defensive stocks and bonds; Increase cash position"
                     ELSE IF level = "Medium"
                     THEN "Maintain current allocation; Consider gradual rebalancing"
                     ELSE "Your portfolio is well-positioned; Consider growth opportunities"
        IN  /\ (\E i \in 1..Len(items) : items[i] = DiversificationLine) <=> score < 6
            /\ score < 6 =>
                  /\ items[Len(items)] = DiversificationLine
                  /\ Len(items) = (IF level = "High" THEN 4 ELSE 3)
                  /\ probe.result.recommendation = own \o "; " \o DiversificationLine
            /\ score >= 6 =>
                  /\ Len(items) = (IF level = "High" THEN 3 ELSE 2)
                  /\ probe.result.recommendation = own
            /\ probe.args = <<130, 100, 3>> =>
                  /\ level = "High"
                  /\ items[4] = DiversificationLine

C20_Witness ==
    /\ ProbedRisk
    /\ probe.args = <<130, 100, 3>>
    /\ probe.result.risk_level = "High"
    /\ probe.result.recommendation =
          "Consider reducing high-beta positions; Add defensive stocks and bonds; Increase cash position; Improve diversification across sectors"


ExcellentText == "Excellent performance! Consider maintaining your strategy."
GoodText == "Good performance. Continue monitoring and diversifying."
ReviewText == "Review investment strategy for better returns."

\* 1.1 and 1.05 to the power of the period, as fractions <<numerator, denominator>>
GrowthAt10 == [y \in {1, 2, 3} |->
                 IF y = 1 THEN <<11, 10>> ELSE IF y = 2 THEN <<121, 100>> ELSE <<1331, 1000>>]
GrowthAt5 == [y \in {1, 2, 3} |->
                 IF y = 1 THEN <<21, 20>> ELSE IF y = 2 THEN <<441, 400>> ELSE <<9261, 8000>>]

ProbedConvert == probe.kind = "convert"

\* the rate each probed code is to be given: the table's rate of the code in
\* upper case, and 1.0 (100 hundredths) for a code the table does not have
ExpectedRate ==
    [code \in DOMAIN exchange_rates \cup {"usd", "Eur", "pkr", "XYZ", "btc", ""} |->
        IF code \in DOMAIN exchange_rates THEN exchange_rates[code]
        ELSE IF code = "usd" THEN exchange_rates["USD"]
        ELSE IF code = "Eur" THEN exchange_rates["EUR"]
        ELSE IF code = "pkr" THEN exchange_rates["PKR"]
        ELSE 100]

\* C22: currency_converter does not fail on an unknown code: a code that the
\* table lacks is given rate 1.0, as USD; the lookup ignores case; no rate is
\* zero, so the division is defined; the value is amount / from_rate * to_rate
\* rounded to 2 decimals (the nearest cent); between two codes of equal rate,
\* two unknown codes included, the amount is returned unchanged.
C22_UnknownCodesAreRateOne ==
    /\ \A code \in CurrencyCodes : RateTable[code] = ExpectedRate[code] /\ RateTable[code] > 0
    /\ ProbedConvert =>
          LET x  == probe.args[1]
              ra == ExpectedRate[probe.args[2]]
              rb == ExpectedRate[probe.args[3]]
          IN  /\ 2 * Abs(probe.result * ra - x * rb) <= ra
              /\ ra = rb => probe.result = x

C22_Witness ==
    /\ ProbedConvert
    /\ probe.args = <<40, "XYZ", "Eur">>
    /\ probe.result = 37


ProbedPortfolio == probe.kind = "portfolio"

C24_KeyLookupFollowsPriority ==
    LET openai == GetEnv(env, "OPENAI_API_KEY", "")
        google == GetEnvOpt(env, "GOOGLE_API_KEY")
        found  == get_api_key(env)
    IN  /\ ~found.raised
        /\ found = IF Len(openai) > 0 /\ StartsWith(openai, "sk-or-v1-")
                   THEN KeyResult(Some(openai), "openrouter")
                   ELSE IF Len(openai) > 0 THEN KeyResult(Some(openai), "openai")
                   ELSE IF Truthy(google) THEN KeyResult(google, "google")
                   ELSE KeyResult(None, "none")


\* C25 as stated: every error string that run_finance_agent returns to the
\* web UI (configuration, API, rate limit, token limit, generic) passes the
\* UI's error test and is shown in warning style.
C25_ErrorsShownAsWarnings ==
    (last.done /\ last.ui /\ last.stage # "ok" /\ last.outcome.kind = "returned")
        => ResponseStyle(last.outcome.value) = "warning"


\* a step in which a run_finance_agent call is made and returns at once, with
\* no await of Runner.run
ReturnsBeforeAwait == ncalls' = ncalls + 1 /\ pc' = "idle"

\* C26: a run_finance_agent call that returns an error string without having
\* invoked the assistant layer (no credential, or a failure of the credential
\* lookup or of the client configuration) leaves the session it was given,
\* and every other session, as it was: no user or assistant turn is appended.
C26_EarlyErrorKeepsSession ==
    /\ []((last.done /\ last.invoked = 0)
            => /\ last.stage \in {"lookup", "nokey"}
               /\ last.outcome.kind = "returned"
               /\ StartsWith(last.outcome.value, WarningSign))
    /\ [][ReturnsBeforeAwait
            => /\ last'.done /\ last'.invoked = 0
               /\ sessions' = sessions]_vars

C26_Witness ==
    /\ last.done
    /\ last.invoked = 0
    /\ last.stage = "lookup"
    /\ last.session = Some("finance_conversation")
    /\ sessions["finance_conversation"] = << >>
    /\ runCalls["finance_conversation"] = 2


\* the transcript is made of pairs: a user message, then an assistant message
InPairs(messages) ==
    \A k \in 1..Len(messages) :
        messages[k].role = IF k % 2 = 1 THEN "user" ELSE "assistant"

\* C27: in the web UI every handled input grows st.session_state.messages by
\* two entries, the user's message and then one assistant message, whether
\* the call answers or fails; between handlings the transcript has even length
\* and alternates user and assistant; while the call is awaited the user's
\* message is the last entry; only 'Clear Chat History' shortens the
\* transcript, and it empties it.
C27_TranscriptGrowsInPairs ==
    /\ [](/\ InPairs(session_state.messages)
          /\ Len(session_state.messages) % 2 = IF pc = "awaiting" /\ call.ui THEN 1 ELSE 0)
    /\ [][session_state'.messages # session_state.messages
            => \/ /\ session_state'.messages = << >>
                  /\ pc = "idle" /\ pc' = "idle" /\ ncalls' = ncalls
               \/ /\ IsPrefix(session_state.messages, session_state'.messages)
                  /\ Len(session_state'.messages) =
                        Len(session_state.messages)
                           + (IF pc = "idle" /\ pc' = "idle" THEN 2 ELSE 1)]_vars

\* an answered input, then an input whose call failed: four messages
C27_Witness ==
    /\ pc = "idle"
    /\ Len(session_state.messages) = 4
    /\ session_state.messages[2].content = "Here is the answer."
    /\ session_state.messages[4].content = RateLimitText
    /\ last.stage = "assistant"


ProbedMappings == probe.kind = "mappings"

\* the category of a text of run_finance_agent's except handler
CoreCategory(text) ==
    IF text = ApiErrorText THEN "authentication"
    ELSE IF text = RateLimitText THEN "rate limit"
    ELSE IF text = TokenLimitText THEN "token limit"
    ELSE "generic"

\* the category of a text of the web UI's except handler
AppCategory(text) ==
    IF StartsWith(text, WarningSign \o " **Authentication Error**") THEN "authentication"
    ELSE IF StartsWith(text, WarningSign \o " **Rate Limit**") THEN "rate limit"
    ELSE IF StartsWith(text, WarningSign \o " **Token Limit Error**") THEN "token limit"
    ELSE "generic"

\* C28 as stated: the except handler of run_finance_agent and the except
\* handler of the web UI give every failure message the same category, also
\* a message that has several of "401", "402", "429", "authentication",
\* "User not found", "rate limit" and "token".
C28_MappingsAgree ==
    ProbedMappings => CoreCategory(probe.result[1]) = AppCategory(probe.result[2])


\* C29: the target of a run_finance_agent call is a function of the call's
\* query text alone: it is the classifier's target of that query, and a call
\* that follows a routed call with the same query has the same target,
\* whatever the session handles of the two calls, the turns stored by then
\* and the targets of earlier calls.
C29_TargetFromQueryAlone ==
    /\ pc = "awaiting" => call.target = RouteTable[call.query]
    /\ (last.done /\ last.invoked = 1) => last.target = RouteTable[last.query]
    /\ (pc = "awaiting" /\ last.done /\ last.invoked = 1 /\ last.query = call.query)
          => call.target = last.target

\* the same query again, with another session handle, after a stored turn
C29_Witness ==
    /\ pc = "awaiting"
    /\ last.done /\ last.stage = "ok"
    /\ last.query = call.query
    /\ last.session = Some(WebSessionId(1))
    /\ call.session = None
    /\ Len(sessions[WebSessionId(1)]) = 2
    /\ call.query = "stock market news"
    /\ call.target = stock_agent
    /\ last.target = stock_agent


\* the three entries of currency_keywords that math_keywords has as well
ArithmeticEntries == {"subtract", "add", "multiply"}

\* the if/elif chain with the three entries taken out of currency_keywords
RouteTargetWithoutArithmetic(query) ==
    LET query_lower == Lower(query) IN
    IF AnyIn(math_keywords, query_lower) THEN currency_agent
    ELSE IF AnyIn(stock_keywords, query_lower) THEN stock_agent
    ELSE IF AnyIn(portfolio_keywords, query_lower) THEN portfolio_agent
    ELSE IF AnyIn(news_keywords, query_lower) THEN market_agent
    ELSE IF AnyIn(currency_keywords \ ArithmeticEntries, query_lower) THEN currency_agent
    ELSE triage_agent

\* the query passes the first four tests and is decided by the currency test
DecidedAtCurrencyStep(query) ==
    LET query_lower == Lower(query) IN
    /\ ~AnyIn(math_keywords, query_lower)
    /\ ~AnyIn(stock_keywords, query_lower)
    /\ ~AnyIn(portfolio_keywords, query_lower)
    /\ ~AnyIn(news_keywords, query_lower)
    /\ AnyIn(currency_keywords, query_lower)

\* C30: "subtract", "add" and "multiply" of currency_keywords never decide a
\* routing: they are entries of math_keywords too, so a query decided at the
\* fifth (currency) test has none of them, and the classifier with the three
\* entries taken out of currency_keywords gives every query the same target.
C30_ArithmeticEntriesNeverDecide ==
    /\ ArithmeticEntries \subseteq currency_keywords \cap math_keywords
    /\ ProbedRoute =>
          /\ DecidedAtCurrencyStep(probe.text)
                => ~AnyIn(ArithmeticEntries, Lower(probe.text))
          /\ RouteTargetWithoutArithmetic(probe.text) = probe.result

\* "add" (in "address") is the only keyword of the query
C30_Witness ==
    /\ ProbedRoute
    /\ probe.text = "address hello"
    /\ probe.result = currency_agent
    /\ ~AnyIn(currency_keywords \ ArithmeticEntries, Lower(probe.text))

=============================================================================
